---------------------------- MODULE Spec2Model ----------------------------
(***************************************************************************)
(* go-async (package async): Do and Stream.                                *)
(*                                                                         *)
(* Each call of Do or Stream makes an unbuffered channel, spawns one        *)
(* goroutine that defers close(r), invokes the user function and sends the  *)
(* wrapped outcome on the channel.  The model has one producer goroutine    *)
(* and one consumer per call; a send and its receive are one rendezvous     *)
(* step, because the channel has no buffer.  The user function is           *)
(* nondeterministic: it may return any value, error and continue flag, it   *)
(* may never return, and it may panic.                                      *)
(***************************************************************************)
EXTENDS Integers, Sequences, FiniteSets, TLC

\* ------------------------------------------------------------------ bounds
\* The calls the caller program makes (each at most once, as Do or as Stream).
Calls == {"a", "b"}
\* The calls that may be made as Stream; the others are made as Do only.
StreamCalls == {"a"}
\* A step function returns continue = false at its MaxSteps-th call at the latest.
MaxSteps == 3
\* The consumer reads a closed conduit at most MaxReads times.
MaxReads == 2
\* ------------------------------------------------------------- data model
\* *new(T): the zero value of T.
Zero == 0
\* The values of T the user function returns: the zero value and another one.
Vals == {0, 1}
\* The nil error.
NoErr == "nil"
\* The non-nil errors the user function returns.
Errs == {"e1"}
\* The contexts the caller may pass: one context, which the caller may cancel
\* at any time.  Do and Stream treat it as an opaque value.
Ctxs == {"ctx"}

\* success[T](val)
success(val) == [Value |-> val, Error |-> NoErr]

\* fail[T](err)
fail(err) == [Value |-> Zero, Error |-> err]

\* A mutant of Wrap: the failure keeps the value the function returned.
WrapKeepValue(result, err) == [Value |-> result, Error |-> err]

\* if err != nil { r <- fail[T](err) } else { r <- success[T](result) }
Wrap(result, err) == IF err # NoErr THEN fail(err) ELSE success(result)

\* What a receive on a closed channel yields: the zero _Result and ok = false.
ClosedRead == [val |-> [Value |-> Zero, Error |-> NoErr], ok |-> FALSE]

\* ------------------------------------------------------------------ state
VARIABLES
    kind,       \* kind[i]: "none" before the call, then "Do" or "Stream"
    ctxArg,     \* ctxArg[i]: the ctx argument of the call ("none" before it)
    pc,         \* pc[i]: the position of the producing goroutine
    invoked,    \* invoked[i]: how many times action/step has been invoked
    ctxSeen,    \* ctxSeen[i]: the contexts handed to action/step so far, each
                \* with whether it was already cancelled at that invocation
    outcomes,   \* outcomes[i]: what action/step returned, in order
    closes,     \* closes[i]: how many times close(r) ran on the channel
    reads,      \* reads[i]: what the consumer's receives yielded, in order
    caller,     \* the call the calling thread is inside of ("none": in none)
    cancelled,  \* the context "ctx" has been cancelled
    crashed     \* an unrecovered panic has ended the process

vars == <<kind, ctxArg, pc, invoked, ctxSeen, outcomes, closes, reads,
          caller, cancelled, crashed>>

\* The channel r is closed.
closed(i) == closes[i] > 0

\* The Results the consumer received (receives with ok = true), in order.
RECURSIVE Oks(_)
Oks(s) == IF s = <<>> THEN <<>>
          ELSE IF Head(s).ok THEN <<Head(s).val>> \o Oks(Tail(s))
          ELSE Oks(Tail(s))

received(i) == Oks(reads[i])

\* How many receives reported "closed".
RECURSIVE CountClosed(_)
CountClosed(s) == IF s = <<>> THEN 0
                  ELSE (IF Head(s).ok THEN 0 ELSE 1) + CountClosed(Tail(s))

\* The outcome of the latest action/step call that returned.
Last(i) == outcomes[i][Len(outcomes[i])]

Init ==
    /\ kind = [i \in Calls |-> "none"]
    /\ ctxArg = [i \in Calls |-> "none"]
    /\ pc = [i \in Calls |-> "idle"]
    /\ invoked = [i \in Calls |-> 0]
    /\ ctxSeen = [i \in Calls |-> {}]
    /\ outcomes = [i \in Calls |-> <<>>]
    /\ closes = [i \in Calls |-> 0]
    /\ reads = [i \in Calls |-> <<>>]
    /\ caller = "none"
    /\ cancelled = FALSE
    /\ crashed = FALSE

\* ------------------------------------------------- the goroutine's control
\* A mutant of PassedCtx: the goroutine runs the function with
\* context.Background() instead of the caller's context.
PassedBackground(ctx) == "background"

\* action(ctx) / step(ctx): the context handed to the user function.
PassedCtx(ctx) == ctx

\* A mutant of AfterReturn: a result whose function said "stop" is not sent.
AfterReturnSkipLast(k, next) == IF k = "Stream" /\ ~next THEN "exit" ELSE "send"

\* A mutant of AfterReturn: the result is dropped instead of sent (no blocking).
AfterReturnDrop(k, next) == IF k = "Do" THEN "exit" ELSE "check"

\* After action/step returns, the goroutine sends the wrapped outcome.
AfterReturn(k, next) == "send"

\* After the send: Do's function body ends, Stream evaluates !next.
AfterSend(k) == IF k = "Do" THEN "exit" ELSE "check"

\* ctx.Err() != nil
Cancelled(ctx) == ctx = "ctx" /\ cancelled

\* A mutant of Continue: an iteration that failed ends the loop.
ContinueUnlessError(i) == Last(i).next /\ Last(i).err = NoErr

\* A mutant of Continue: a cancelled context ends the loop.
ContinueUnlessCancelled(i) == Last(i).next /\ ~Cancelled(ctxArg[i])

\* if !next { break }: the loop goes on exactly when step returned next = true.
Continue(i) == Last(i).next

\* A mutant of AfterClose: the channel is closed a second time.
AfterCloseAgain == "exit"

\* A mutant of AfterClose: close(r) sits inside the loop, which goes on.
AfterCloseLoop == "loop"

\* After the deferred close(r) the goroutine is gone.
AfterClose == "done"

\* A mutant of AfterUnwind: the deferred function recovers the panic and the
\* goroutine ends as if the function body had ended.
AfterUnwindRecovered == "done"

\* go func() { defer close(r); ... }(): nothing recovers, so after the deferred
\* close the panic leaves the goroutine and is fatal to the process.
AfterUnwind == "fatal"

\* A mutant of ChanOf: one channel, made once, is shared by all calls.
ChanShared(i) == "a"

\* r := make(Result[T]): the channel of call i is its own.
ChanOf(i) == i

\* A mutant of CanReturn: the call returns once action/step has returned.
CanReturnAfterAction(i) == outcomes[i] # <<>>

\* return r follows the go statement: the calling thread waits for nothing.
CanReturn(i) == TRUE

\* The consumer of call i has the conduit: the call has returned it.
holds(i) == kind[i] # "none" /\ caller # i

\* A mutant of ClosesAfter: the goroutine ends without closing the channel.
ClosesAfterNoClose(n) == n

\* defer close(r)
ClosesAfter(n) == n + 1

\* ---------------------------------------------------------------- actions
\* Do(ctx, action): r := make(Result[T]); go func() {...}().  The calling
\* thread is now at return r.
Do(i, ctx) ==
    /\ ~crashed
    /\ caller = "none"
    /\ kind[i] = "none"
    /\ kind' = [kind EXCEPT ![i] = "Do"]
    /\ ctxArg' = [ctxArg EXCEPT ![i] = ctx]
    /\ pc' = [pc EXCEPT ![i] = "spawned"]
    /\ caller' = i
    /\ UNCHANGED <<invoked, ctxSeen, outcomes, closes, reads, cancelled,
                   crashed>>

\* Stream(ctx, step): r := make(Sequence[T]); go func() {...}().  The calling
\* thread is now at return r.
Stream(i, ctx) ==
    /\ ~crashed
    /\ caller = "none"
    /\ kind[i] = "none"
    /\ i \in StreamCalls
    /\ kind' = [kind EXCEPT ![i] = "Stream"]
    /\ ctxArg' = [ctxArg EXCEPT ![i] = ctx]
    /\ pc' = [pc EXCEPT ![i] = "spawned"]
    /\ caller' = i
    /\ UNCHANGED <<invoked, ctxSeen, outcomes, closes, reads, cancelled,
                   crashed>>

\* return r: the call hands the conduit to the caller, who gives it to the
\* consumer.
ReturnConduit(i) ==
    /\ ~crashed
    /\ caller = i
    /\ CanReturn(i)
    /\ caller' = "none"
    /\ UNCHANGED <<kind, ctxArg, pc, invoked, ctxSeen, outcomes, closes, reads,
                   cancelled, crashed>>

\* The goroutine (with close(r) deferred) invokes action(ctx) / step(ctx).
Invoke(i) ==
    /\ ~crashed
    /\ pc[i] \in {"spawned", "loop"}
    /\ pc' = [pc EXCEPT ![i] = "running"]
    /\ invoked' = [invoked EXCEPT ![i] = @ + 1]
    /\ ctxSeen' = [ctxSeen EXCEPT ![i] =
                      @ \cup {<<PassedCtx(ctxArg[i]), Cancelled(PassedCtx(ctxArg[i]))>>}]
    /\ UNCHANGED <<caller, kind, ctxArg, outcomes, closes, reads, cancelled,
                   crashed>>

\* action returns (v, e); step returns (v, e, next).  Do has no flag: next is
\* recorded as FALSE.
Return(i, v, e, next) ==
    /\ ~crashed
    /\ pc[i] = "running"
    /\ kind[i] = "Do" => ~next
    /\ invoked[i] >= MaxSteps => ~next
    /\ outcomes' = [outcomes EXCEPT ![i] = Append(@, [v |-> v, err |-> e, next |-> next])]
    /\ pc' = [pc EXCEPT ![i] = AfterReturn(kind[i], next)]
    /\ UNCHANGED <<caller, kind, ctxArg, invoked, ctxSeen, closes, reads, cancelled,
                   crashed>>

\* action/step panics: the goroutine starts unwinding.
Panic(i) ==
    /\ ~crashed
    /\ pc[i] = "running"
    /\ pc' = [pc EXCEPT ![i] = "panicking"]
    /\ UNCHANGED <<caller, kind, ctxArg, invoked, ctxSeen, outcomes, closes, reads,
                   cancelled, crashed>>

\* r <- fail(err) / r <- success(result), met by the consumer's receive.
Recv(i) ==
    /\ ~crashed
    /\ pc[i] = "send"
    /\ holds(ChanOf(i))
    /\ reads' = [reads EXCEPT ![ChanOf(i)] =
                    Append(@, [val |-> Wrap(Last(i).v, Last(i).err), ok |-> TRUE])]
    /\ pc' = [pc EXCEPT ![i] = AfterSend(kind[i])]
    /\ UNCHANGED <<caller, kind, ctxArg, invoked, ctxSeen, outcomes, closes,
                   cancelled, crashed>>

\* Stream: if !next { break }, else the next iteration.
Check(i) ==
    /\ ~crashed
    /\ pc[i] = "check"
    /\ pc' = [pc EXCEPT ![i] =
                 IF Continue(i) THEN "loop" ELSE "exit"]
    /\ UNCHANGED <<caller, kind, ctxArg, invoked, ctxSeen, outcomes, closes, reads,
                   cancelled, crashed>>

\* The deferred close(r) runs: when the function body ends, and also while a
\* panic unwinds the goroutine.
Close(i) ==
    /\ ~crashed
    /\ pc[i] \in {"exit", "panicking"}
    /\ closes' = [closes EXCEPT ![ChanOf(i)] = ClosesAfter(@)]
    /\ pc' = [pc EXCEPT ![i] = IF pc[i] = "exit" THEN AfterClose ELSE AfterUnwind]
    /\ UNCHANGED <<caller, kind, ctxArg, invoked, ctxSeen, outcomes, reads, cancelled,
                   crashed>>

\* The panic was not recovered: the runtime ends the process.
Crash(i) ==
    /\ ~crashed
    /\ pc[i] = "fatal"
    /\ crashed' = TRUE
    /\ UNCHANGED <<caller, kind, ctxArg, pc, invoked, ctxSeen, outcomes, closes, reads,
                   cancelled>>

\* The consumer receives on the closed channel.
ReadClosed(i) ==
    /\ ~crashed
    /\ closed(i)
    /\ holds(i)
    /\ CountClosed(reads[i]) < MaxReads
    /\ reads' = [reads EXCEPT ![i] = Append(@, ClosedRead)]
    /\ UNCHANGED <<caller, kind, ctxArg, pc, invoked, ctxSeen, outcomes, closes,
                   cancelled, crashed>>

\* The caller cancels the context "ctx".
Cancel ==
    /\ ~crashed
    /\ ~cancelled
    /\ cancelled' = TRUE
    /\ UNCHANGED <<caller, kind, ctxArg, pc, invoked, ctxSeen, outcomes, closes, reads,
                   crashed>>

Next ==
    \/ \E i \in Calls, ctx \in Ctxs : Do(i, ctx)
    \/ \E i \in Calls, ctx \in Ctxs : Stream(i, ctx)
    \/ \E i \in Calls : ReturnConduit(i)
    \/ \E i \in Calls : Invoke(i)
    \/ \E i \in Calls, v \in Vals, e \in Errs \cup {NoErr}, next \in BOOLEAN :
          Return(i, v, e, next)
    \/ \E i \in Calls : Panic(i)
    \/ \E i \in Calls : Recv(i)
    \/ \E i \in Calls : Check(i)
    \/ \E i \in Calls : Close(i)
    \/ \E i \in Calls : Crash(i)
    \/ \E i \in Calls : ReadClosed(i)
    \/ Cancel

Spec == Init /\ [][Next]_vars

\* The scheduler runs every goroutine that can take a step: the calling thread
\* returns from the call, the producer gets past its check and its deferred
\* close, and a consumer that keeps receiving takes every Result offered and
\* sees the close.  Nothing makes action/step
\* return.
Fairness ==
    \A i \in Calls :
        /\ WF_vars(ReturnConduit(i))
        /\ WF_vars(Recv(i))
        /\ WF_vars(Check(i))
        /\ WF_vars(Close(i))
        /\ WF_vars(ReadClosed(i))

LiveSpec == Init /\ [][Next]_vars /\ Fairness


\* ------------------------------------------------------- claims: vocabulary
\* The goroutine of call i is unwinding a panic of action/step, or has unwound.
panicked(i) == pc[i] \in {"panicking", "fatal"}

\* The Result the contract asks for an outcome o = (v, err, next).
ResultOf(o) == IF o.err = NoErr THEN [Value |-> o.v, Error |-> NoErr]
               ELSE [Value |-> Zero, Error |-> o.err]

\* Every receive that yielded a Result came before every receive that
\* reported "closed".
ResultsThenClosed(s) ==
    \A k \in 1..Len(s) : \A m \in 1..Len(s) : (s[k].ok /\ ~s[m].ok) => k < m

\* ----------------------------------------------------------------- C1
\* C1: for every Do call whose action returned (v, nil), the consumer receives
\* at most one Result, that Result is (Value = v, Error = nil), the conduit is
\* closed only after it was received, the producer is done only with the
\* conduit closed, and no Result is received after a "closed".
C1_DoSuccessOneResultThenClosed ==
    \A i \in Calls :
        (kind[i] = "Do" /\ outcomes[i] # <<>> /\ outcomes[i][1].err = NoErr) =>
            /\ Len(outcomes[i]) = 1
            /\ invoked[i] = 1
            /\ Len(received(i)) <= 1
            /\ \A k \in 1..Len(received(i)) :
                  received(i)[k] = [Value |-> outcomes[i][1].v, Error |-> NoErr]
            /\ closed(i) => Len(received(i)) = 1
            /\ pc[i] \in {"exit", "done"} => Len(received(i)) = 1
            /\ pc[i] = "done" => closed(i)
            /\ ResultsThenClosed(reads[i])

\* A Do whose action returned (1, nil): its Result was received, the conduit is
\* closed and a further read reported "closed".
C1_Witness ==
    \E i \in Calls :
        /\ kind[i] = "Do"
        /\ outcomes[i] = <<[v |-> 1, err |-> NoErr, next |-> FALSE]>>
        /\ received(i) = <<[Value |-> 1, Error |-> NoErr]>>
        /\ pc[i] = "done" /\ closed(i)
        /\ CountClosed(reads[i]) = MaxReads

\* ----------------------------------------------------------------- C2
\* C2: in a Stream whose step returned (v_k, err_k, continue_k), k = 1..n, the
\* k-th received Result is the one built from (v_k, err_k), never more Results
\* are received than step returned, every outcome but the last has continue =
\* true, step is not invoked again after an outcome with continue = false, and
\* the conduit is closed (without a panic) only after an outcome with continue
\* = false and with all n Results received.
C2_StreamResultsInOrderThenClosed ==
    \A i \in Calls :
        kind[i] = "Stream" =>
            /\ Len(received(i)) <= Len(outcomes[i])
            /\ \A k \in 1..Len(received(i)) :
                  received(i)[k] = ResultOf(outcomes[i][k])
            /\ \A k \in 1..(Len(outcomes[i]) - 1) : outcomes[i][k].next
            /\ (outcomes[i] # <<>> /\ ~Last(i).next) => invoked[i] = Len(outcomes[i])
            /\ (closed(i) /\ ~panicked(i)) =>
                  /\ outcomes[i] # <<>> /\ ~Last(i).next
                  /\ Len(received(i)) = Len(outcomes[i])
            /\ pc[i] \in {"exit", "done"} =>
                  /\ outcomes[i] # <<>> /\ ~Last(i).next
                  /\ Len(received(i)) = Len(outcomes[i])
            /\ pc[i] = "done" => closed(i)
            /\ ResultsThenClosed(reads[i])

\* A Stream of MaxSteps iterations, the second one failing: all Results were
\* received in order and the conduit is closed.
C2_Witness ==
    \E i \in Calls :
        /\ kind[i] = "Stream"
        /\ Len(outcomes[i]) = MaxSteps
        /\ outcomes[i][1] = [v |-> 1, err |-> NoErr, next |-> TRUE]
        /\ outcomes[i][2] = [v |-> 1, err |-> "e1", next |-> TRUE]
        /\ Len(received(i)) = MaxSteps
        /\ received(i)[1] = [Value |-> 1, Error |-> NoErr]
        /\ received(i)[2] = [Value |-> Zero, Error |-> "e1"]
        /\ pc[i] = "done" /\ closed(i)
        /\ CountClosed(reads[i]) > 0

\* ----------------------------------------------------------------- C3
\* C3: the k-th Result delivered by Do or Stream, for a call that returned a
\* non-nil error, has that error and the zero value (also when a non-zero value
\* came with the error); for a call that returned a nil error it has a nil
\* error and the returned value.  No delivered Result has a non-nil Error and
\* a non-zero Value.
C3_FailureHasZeroValue ==
    \A i \in Calls :
        /\ Len(received(i)) <= Len(outcomes[i])
        /\ \A k \in 1..Len(received(i)) :
              LET o == outcomes[i][k]
                  r == received(i)[k]
              IN  /\ o.err # NoErr => (r.Error = o.err /\ r.Value = Zero)
                  /\ o.err = NoErr => (r.Error = NoErr /\ r.Value = o.v)
                  /\ ~(r.Error # NoErr /\ r.Value # Zero)

\* A Do and a Stream that each returned a non-zero value with an error, both
\* Results delivered.
C3_Witness ==
    \E i, j \in Calls :
        /\ kind[i] = "Do" /\ kind[j] = "Stream"
        /\ outcomes[i] = <<[v |-> 1, err |-> "e1", next |-> FALSE]>>
        /\ received(i) = <<[Value |-> Zero, Error |-> "e1"]>>
        /\ Len(outcomes[j]) = 2 /\ Len(received(j)) = 2
        /\ outcomes[j][2].v = 1 /\ outcomes[j][2].err = "e1"
        /\ received(j)[2] = [Value |-> Zero, Error |-> "e1"]
        /\ received(j)[1] = [Value |-> 1, Error |-> NoErr]

\* ----------------------------------------------------------------- C4
\* C4: in a Stream, once the Result of the latest iteration is delivered, the
\* loop goes on exactly when that iteration returned continue = true, whatever
\* its error: after (err, true) the goroutine is at the check or at the head
\* of the loop, where the next step call is enabled, and after (nil, false) no
\* further step call is made.
C4_LoopFollowsContinueFlagOnly ==
    \A i \in Calls :
        (kind[i] = "Stream" /\ outcomes[i] # <<>>) =>
            /\ (Len(received(i)) = Len(outcomes[i]) /\ invoked[i] = Len(outcomes[i])) =>
                  IF Last(i).next
                  THEN pc[i] \in {"check", "loop"}
                  ELSE pc[i] \in {"check", "exit", "done"}
            /\ pc[i] = "loop" =>
                  /\ Last(i).next
                  /\ Len(received(i)) = Len(outcomes[i])
                  /\ crashed \/ ENABLED Invoke(i)
            /\ ~Last(i).next => invoked[i] = Len(outcomes[i])
            /\ invoked[i] > Len(outcomes[i]) =>
                  /\ Len(received(i)) = Len(outcomes[i])
                  /\ Last(i).next

\* Scenario C: the second iteration returned an error with continue = true, its
\* failure-tagged Result was delivered and step was invoked a third time.
C4_Witness ==
    \E i \in Calls :
        /\ kind[i] = "Stream"
        /\ Len(outcomes[i]) = 2
        /\ outcomes[i][2].err = "e1" /\ outcomes[i][2].next
        /\ Len(received(i)) = 2 /\ received(i)[2].Error = "e1"
        /\ invoked[i] = 3
        /\ pc[i] = "running"


\* ----------------------------------------------------------------- C5
\* C5: once the action of a Do has returned, or a step of a Stream has
\* returned continue = false, and the consumer keeps receiving, the conduit is
\* eventually closed, the producing goroutine is gone and the consumer has seen
\* the close (unless a panic in another call ends the process first).
C5_ReturnedLeadsToClosed ==
    \A i \in Calls :
        (outcomes[i] # <<>> /\ ~Last(i).next)
            ~> (crashed \/ (pc[i] = "done" /\ closed(i) /\ CountClosed(reads[i]) > 0))

\* A Do and a Stream that both ran to the end in a process that did not crash:
\* both goroutines are gone and both consumers saw the close.
C5_Witness ==
    /\ ~crashed
    /\ \E i, j \in Calls :
        /\ kind[i] = "Do" /\ kind[j] = "Stream"
        /\ pc[i] = "done" /\ closed(i) /\ CountClosed(reads[i]) > 0
        /\ pc[j] = "done" /\ closed(j) /\ CountClosed(reads[j]) > 0
        /\ Len(received(j)) = MaxSteps

\* ----------------------------------------------------------------- C6
\* C6: a conduit is closed at most once, by its own producing goroutine (at the
\* end of its function body or while its panic unwinds) and by a step that
\* closes no other conduit; once it is closed the producer is gone for good:
\* it sends nothing more and invokes step no more.
C6_ClosedOnceAndTerminal ==
    /\ [](\A i \in Calls :
            /\ closes[i] <= 1
            /\ closed(i) => pc[i] \in {"done", "fatal"})
    /\ [][\A i \in Calls :
            /\ closed(i) =>
                  /\ closes'[i] = closes[i]
                  /\ pc'[i] = pc[i]
                  /\ invoked'[i] = invoked[i]
                  /\ outcomes'[i] = outcomes[i]
                  /\ received(i)' = received(i)
            /\ closes'[i] # closes[i] =>
                  /\ pc[i] \in {"exit", "panicking"}
                  /\ pc'[i] # pc[i]
                  /\ \A j \in Calls \ {i} : closes'[j] = closes[j] /\ pc'[j] = pc[j]]_vars

\* A Stream closed after its second Result and a Do closed by the deferred
\* close while its panic unwound: each conduit was closed once.
C6_Witness ==
    \E i, j \in Calls :
        /\ kind[i] = "Stream" /\ pc[i] = "done" /\ closes[i] = 1
        /\ Len(received(i)) = 2
        /\ kind[j] = "Do" /\ pc[j] = "fatal" /\ closes[j] = 1

\* ----------------------------------------------------------------- C7
\* C7: on a closed conduit the next read of the consumer that has it is enabled
\* (it does not block) as long as the process lives, every read after the close yields
\* "closed" (ok = false) and no Result, however often it is repeated, and a read
\* moves no goroutine and crashes nothing.
C7_ReadsAfterCloseReportClosed ==
    /\ [](\A i \in Calls :
            /\ (closed(i) /\ holds(i) /\ ~crashed /\ CountClosed(reads[i]) < MaxReads) =>
                  ENABLED ReadClosed(i)
            /\ CountClosed(reads[i]) > 0 => closed(i)
            /\ ResultsThenClosed(reads[i])
            /\ \A k \in 1..Len(reads[i]) :
                  ~reads[i][k].ok => reads[i][k].val = [Value |-> Zero, Error |-> NoErr])
    /\ [][\A i \in Calls :
            closed(i) =>
                /\ received(i)' = received(i)
                /\ reads'[i] # reads[i] =>
                      /\ Len(reads'[i]) = Len(reads[i]) + 1
                      /\ ~reads'[i][Len(reads'[i])].ok
                      /\ pc' = pc /\ crashed' = crashed /\ closes' = closes]_vars

\* A Stream conduit closed after one Result, read MaxReads more times: every
\* one of those reads reported "closed".
C7_Witness ==
    \E i \in Calls :
        /\ kind[i] = "Stream" /\ closed(i) /\ pc[i] = "done"
        /\ Len(received(i)) = 1
        /\ Len(reads[i]) = 1 + MaxReads
        /\ \A k \in 2..Len(reads[i]) : ~reads[i][k].ok

\* ----------------------------------------------------------------- C8
\* C8: a Do whose action has returned and whose Result has not been received is
\* blocked in the send with the conduit open, and every step that is not the
\* consumer's receive leaves it there: the conduit of a Do whose action
\* returned is closed only after its Result has been received.
C8_DoBlocksUntilReceived ==
    /\ [](\A i \in Calls :
            (kind[i] = "Do" /\ outcomes[i] # <<>>) =>
                /\ received(i) = <<>> => (pc[i] = "send" /\ ~closed(i))
                /\ closed(i) => Len(received(i)) = 1)
    /\ [][\A i \in Calls :
            (kind[i] = "Do" /\ pc[i] = "send" /\ reads'[i] = reads[i]) =>
                /\ pc'[i] = "send"
                /\ closes'[i] = closes[i]]_vars

\* A Do whose action returned and whose consumer has read nothing, while the
\* other call ran to its end and the context was cancelled: the producer is
\* still in the send and the conduit is open.
C8_Witness ==
    \E i, j \in Calls :
        /\ kind[i] = "Do" /\ outcomes[i] # <<>> /\ reads[i] = <<>>
        /\ pc[i] = "send" /\ ~closed(i)
        /\ Cancelled(ctxArg[i])
        /\ i # j /\ pc[j] = "done"

\* ----------------------------------------------------------------- C9
\* C9: in a Stream at most one produced Result is not yet received; the
\* producer holding it is in the send with the conduit open, step has been
\* invoked at most once more than Results were received, and every step that
\* is not the consumer's receive leaves the producer in the send: no further
\* step call, no close.
C9_StreamOnePendingResult ==
    /\ [](\A i \in Calls :
            kind[i] = "Stream" =>
                /\ invoked[i] <= Len(received(i)) + 1
                /\ Len(outcomes[i]) <= Len(received(i)) + 1
                /\ Len(outcomes[i]) = Len(received(i)) + 1 <=> pc[i] = "send"
                /\ pc[i] = "send" => ~closed(i))
    /\ [][\A i \in Calls :
            (kind[i] = "Stream" /\ pc[i] = "send" /\ reads'[i] = reads[i]) =>
                /\ pc'[i] = "send"
                /\ invoked'[i] = invoked[i]
                /\ closes'[i] = closes[i]]_vars

\* A Stream whose consumer received one Result and then read no more, while
\* the other call ran to its end: step was invoked twice, the second Result
\* is pending in the send and the conduit is open.
C9_Witness ==
    \E i, j \in Calls :
        /\ kind[i] = "Stream" /\ Len(received(i)) = 1
        /\ Len(outcomes[i]) = 2 /\ invoked[i] = 2
        /\ pc[i] = "send" /\ ~closed(i)
        /\ i # j /\ pc[j] = "done"

\* ----------------------------------------------------------------- C10
\* C10: cancelling the context moves no goroutine, closes no conduit and
\* delivers nothing; a running action/step ends only by returning or by
\* panicking; and with the call's context cancelled every delivered Result is
\* still the one built from the function's own outcome, Stream still goes on
\* exactly when step returned continue = true (the next step call is enabled),
\* and the conduit is closed without a panic only after the function said stop
\* and its Results were received.
C10_CancellationIsAdvisory ==
    /\ [](\A i \in Calls :
            Cancelled(ctxArg[i]) =>
                /\ \A k \in 1..Len(received(i)) :
                      /\ k <= Len(outcomes[i])
                      /\ received(i)[k] = ResultOf(outcomes[i][k])
                /\ (closed(i) /\ ~panicked(i)) =>
                      /\ outcomes[i] # <<>> /\ ~Last(i).next
                      /\ Len(received(i)) = Len(outcomes[i])
                /\ pc[i] \in {"exit", "done"} => (outcomes[i] # <<>> /\ ~Last(i).next)
                /\ pc[i] \in {"spawned", "loop"} => (crashed \/ ENABLED Invoke(i))
                /\ (/\ outcomes[i] # <<>> /\ Last(i).next
                    /\ Len(received(i)) = Len(outcomes[i])
                    /\ invoked[i] = Len(outcomes[i])) => pc[i] \in {"check", "loop"})
    /\ [][/\ cancelled' # cancelled =>
                UNCHANGED <<pc, invoked, outcomes, closes, reads, crashed>>
          /\ \A i \in Calls :
                (pc[i] = "running" /\ pc'[i] # "running") =>
                    \/ pc'[i] = "panicking"
                    \/ Len(outcomes'[i]) = Len(outcomes[i]) + 1]_vars

\* A Stream and a Do whose every action/step call was made with the context
\* already cancelled: the Stream still ran MaxSteps iterations and delivered
\* each outcome, the Do delivered its action's value.
C10_Witness ==
    \E i, j \in Calls :
        /\ kind[i] = "Stream" /\ ctxSeen[i] = {<<"ctx", TRUE>>}
        /\ invoked[i] = MaxSteps /\ Len(received(i)) = MaxSteps
        /\ received(i)[1] = [Value |-> 1, Error |-> NoErr]
        /\ pc[i] = "done"
        /\ kind[j] = "Do" /\ ctxSeen[j] = {<<"ctx", TRUE>>}
        /\ received(j) = <<[Value |-> 1, Error |-> NoErr]>>
        /\ pc[j] = "done"

\* ----------------------------------------------------------------- C11
\* C11 (as the README states it): once the context passed to a Stream is
\* cancelled, the Stream starts no further step invocation.
C11_NoStepAfterCancel ==
    [][\A i \in Calls :
          (kind[i] = "Stream" /\ invoked[i] >= 1 /\ Cancelled(ctxArg[i])) =>
              invoked'[i] = invoked[i]]_vars

\* ----------------------------------------------------------------- C12
\* C12: the calling thread is never held inside Do or Stream: return r is
\* enabled whatever the goroutine and the user function are doing, also with
\* action/step still running.  The step that makes the call invokes nothing,
\* every invocation is a step of the spawned goroutine that leaves the calling
\* thread where it is, and the return moves no goroutine.
C12_CallReturnsAtOnce ==
    /\ [](\A i \in Calls :
            /\ caller = i => (crashed \/ ENABLED ReturnConduit(i))
            /\ caller = i => reads[i] = <<>>)
    /\ [][\A i \in Calls :
            /\ kind'[i] # kind[i] =>
                  /\ invoked'[i] = 0 /\ outcomes'[i] = <<>>
                  /\ pc'[i] = "spawned" /\ caller' = i
            /\ invoked'[i] # invoked[i] =>
                  /\ pc[i] \in {"spawned", "loop"}
                  /\ kind[i] # "none"
                  /\ caller' = caller
            /\ (caller = i /\ caller' # i) =>
                  /\ caller' = "none"
                  /\ UNCHANGED <<pc, invoked, outcomes, closes, reads>>]_vars

\* The action of one call is running and has not returned, its call has
\* returned long ago: the calling thread is already inside the next call.
C12_Witness ==
    \E i, j \in Calls :
        /\ i # j
        /\ pc[i] = "running" /\ outcomes[i] = <<>>
        /\ caller = j /\ pc[j] = "spawned"

\* ----------------------------------------------------------------- C13
\* C13: with two Do calls, everything a consumer receives is the Result built
\* from its own call's action outcome, and a step that delivers on or closes
\* one conduit leaves the other call's conduit, its consumer's reads and its
\* producer where they are.
C13_DoCallsDoNotInterfere ==
    /\ [](\A i \in Calls :
            kind[i] = "Do" =>
                /\ Len(received(i)) <= Len(outcomes[i])
                /\ \A k \in 1..Len(received(i)) :
                      received(i)[k] = ResultOf(outcomes[i][1])
                /\ closed(i) => pc[i] \in {"done", "fatal"})
    /\ [][\A i \in Calls : \A j \in Calls \ {i} :
            (/\ kind[i] = "Do" /\ kind[j] = "Do"
             /\ (reads'[i] # reads[i] \/ closes'[i] # closes[i])) =>
                /\ reads'[j] = reads[j]
                /\ closes'[j] = closes[j]
                /\ pc'[j] = pc[j]]_vars

\* Two Do calls with different outcomes: one is done, closed and its consumer
\* got its own Result; the other one's Result is still pending in the send, its
\* conduit open and its consumer has received nothing.
C13_Witness ==
    \E i, j \in Calls :
        /\ i # j /\ kind[i] = "Do" /\ kind[j] = "Do"
        /\ outcomes[i] = <<[v |-> 1, err |-> NoErr, next |-> FALSE]>>
        /\ outcomes[j] = <<[v |-> 0, err |-> "e1", next |-> FALSE]>>
        /\ received(i) = <<[Value |-> 1, Error |-> NoErr]>>
        /\ pc[i] = "done" /\ closed(i) /\ CountClosed(reads[i]) > 0
        /\ pc[j] = "send" /\ ~closed(j) /\ reads[j] = <<>>

\* ----------------------------------------------------------------- C14
\* C14: an action/step call that panicked has no outcome and no Result: the
\* consumer has received only the Results of the calls that returned before
\* it, and receives none afterwards.  The panic is never recovered: the
\* goroutine stays on the panic path, where the process-level fault is enabled,
\* and the process ends only by such a fault.
C14_PanicNotRecoveredNoResult ==
    /\ [](/\ \A i \in Calls :
                panicked(i) =>
                    /\ invoked[i] = Len(outcomes[i]) + 1
                    /\ Len(received(i)) = Len(outcomes[i])
                    /\ \A k \in 1..Len(received(i)) :
                          received(i)[k] = ResultOf(outcomes[i][k])
                    /\ (pc[i] = "fatal" /\ ~crashed) => ENABLED Crash(i)
          /\ crashed => \E i \in Calls : pc[i] = "fatal")
    /\ [][\A i \in Calls :
            panicked(i) =>
                /\ panicked(i)'
                /\ received(i)' = received(i)
                /\ outcomes'[i] = outcomes[i]
                /\ invoked'[i] = invoked[i]]_vars

\* A Stream whose second step call panicked: the process has crashed and the
\* consumer has the first Result only.
C14_Witness ==
    \E i \in Calls :
        /\ kind[i] = "Stream" /\ invoked[i] = 2 /\ Len(outcomes[i]) = 1
        /\ pc[i] = "fatal" /\ crashed
        /\ Len(received(i)) = 1

\* ----------------------------------------------------------------- C15
\* C15 (as stated): on the panic path the producer performs no close of the
\* conduit and the consumer never observes "closed" for it.
C15_NoCloseOnPanic ==
    \A i \in Calls :
        panicked(i) => (closes[i] = 0 /\ CountClosed(reads[i]) = 0)

\* C15 (amended): while the panic of action/step unwinds the goroutine, the
\* deferred close(r) runs.  Before it the conduit is open and the close is
\* enabled; after it the conduit has been closed exactly once; a conduit closed
\* with an invocation that did not return is on this path; and the process
\* ends only after that close.
C15_PanicClosesConduit ==
    /\ \A i \in Calls :
          /\ pc[i] = "panicking" => (closes[i] = 0 /\ (crashed \/ ENABLED Close(i)))
          /\ pc[i] = "fatal" => closes[i] = 1
          /\ (closed(i) /\ invoked[i] > Len(outcomes[i])) => pc[i] = "fatal"
    /\ crashed => \E i \in Calls : pc[i] = "fatal" /\ closes[i] = 1

\* A call whose first action/step call panicked, in a process that is still
\* alive: the conduit is closed and the consumer has read "closed" from it,
\* having received no Result.
C15_Witness ==
    \E i \in Calls :
        /\ pc[i] = "fatal" /\ ~crashed
        /\ invoked[i] = 1 /\ outcomes[i] = <<>>
        /\ closed(i) /\ received(i) = <<>>
        /\ CountClosed(reads[i]) > 0

\* ----------------------------------------------------------------- C16
\* C16: in a Stream at most one step invocation is in progress, and an
\* invocation begins only when every earlier one has returned and its Result
\* has been received by the consumer.
C16_StepCallsSequential ==
    /\ [](\A i \in Calls :
            kind[i] = "Stream" =>
                /\ invoked[i] - Len(outcomes[i]) \in {0, 1}
                /\ invoked[i] > Len(outcomes[i]) <=>
                      pc[i] \in {"running", "panicking", "fatal"}
                /\ invoked[i] > Len(outcomes[i]) =>
                      Len(received(i)) = Len(outcomes[i]))
    /\ [][\A i \in Calls :
            (kind[i] = "Stream" /\ invoked'[i] # invoked[i]) =>
                /\ invoked'[i] = invoked[i] + 1
                /\ Len(outcomes[i]) = invoked[i]
                /\ Len(received(i)) = invoked[i]
                /\ outcomes'[i] = outcomes[i]]_vars

\* The MaxSteps-th step call of a Stream is in progress: the calls before it
\* have all returned and their Results have all been received.
C16_Witness ==
    \E i \in Calls :
        /\ kind[i] = "Stream" /\ pc[i] = "running"
        /\ invoked[i] = MaxSteps
        /\ Len(outcomes[i]) = MaxSteps - 1
        /\ Len(received(i)) = MaxSteps - 1

\* ----------------------------------------------------------------- C17
\* C17: a Do invokes its action at most once, and exactly once by the time its
\* Result is on the way; every action/step invocation of Do and Stream was
\* handed the context that was passed to the call; the call's context argument
\* never changes; and no step of the library or of the consumer cancels the
\* context.
C17_ContextPassedThrough ==
    /\ [](\A i \in Calls :
            /\ kind[i] = "Do" => invoked[i] <= 1
            /\ (kind[i] = "Do" /\ pc[i] \notin {"idle", "spawned"}) => invoked[i] = 1
            /\ kind[i] # "none" => ctxArg[i] \in Ctxs
            /\ invoked[i] > 0 <=> ctxSeen[i] # {}
            /\ \A c \in ctxSeen[i] : c[1] = ctxArg[i])
    /\ [][/\ \A i \in Calls : kind[i] # "none" => ctxArg'[i] = ctxArg[i]
          /\ cancelled' # cancelled =>
                UNCHANGED <<kind, ctxArg, pc, invoked, ctxSeen, outcomes,
                            closes, reads, caller>>
          /\ cancelled => cancelled']_vars

\* A Stream whose step was handed the caller's context before and after the
\* caller cancelled it, and a Do whose action ran once with that context.
C17_Witness ==
    \E i, j \in Calls :
        /\ kind[i] = "Stream" /\ ctxArg[i] = "ctx"
        /\ ctxSeen[i] = {<<"ctx", FALSE>>, <<"ctx", TRUE>>}
        /\ kind[j] = "Do" /\ ctxArg[j] = "ctx" /\ pc[j] = "done"
        /\ invoked[j] = 1 /\ ctxSeen[j] = {<<"ctx", TRUE>>}

\* ----------------------------------------------------------------- C18
\* C18: a Stream whose goroutine reached the end of its function body, or whose
\* conduit is closed without a panic, has invoked step and has had at least
\* one Result received; and the first step call is enabled as soon as the
\* goroutine is spawned, also with the context already cancelled.
C18_StreamNeverEmpty ==
    \A i \in Calls :
        kind[i] = "Stream" =>
            /\ ((closed(i) /\ ~panicked(i)) \/ pc[i] \in {"exit", "done"}) =>
                  /\ invoked[i] >= 1
                  /\ Len(received(i)) >= 1
            /\ CountClosed(reads[i]) > 0 =>
                  (Len(received(i)) >= 1 \/ panicked(i))
            /\ pc[i] = "spawned" => (crashed \/ ENABLED Invoke(i))

\* A Stream called with the context already cancelled and whose first step
\* call returned continue = false: its one Result was received before the
\* conduit closed.
C18_Witness ==
    \E i \in Calls :
        /\ kind[i] = "Stream" /\ ctxSeen[i] = {<<"ctx", TRUE>>}
        /\ outcomes[i] = <<[v |-> 1, err |-> NoErr, next |-> FALSE]>>
        /\ received(i) = <<[Value |-> 1, Error |-> NoErr]>>
        /\ pc[i] = "done" /\ closed(i)
        /\ CountClosed(reads[i]) > 0

=============================================================================
